---------------------------- MODULE Spec2Model ----------------------------
(***************************************************************************)
(* A model of usbdfu.c, the USB DFU class driver: the slot counter         *)
(* dfu_index with dfu_prepare / dfu_cleanup as called by dfu_probe and     *)
(* dfu_disconnect, and the transfer engine dfu_submit_urb with its         *)
(* completion callback dfu_ctrlurb_done.                                   *)
(***************************************************************************)
EXTENDS Integers, FiniteSets, Sequences, TLC

(***************************************************************************)
(* Bounds of the model.  max_dfus is the load-time module parameter of     *)
(* usbdfu.c:21-22 (default 8); the model loads the module with a small     *)
(* pool so that the pool fills.                                            *)
(***************************************************************************)
NumIntf == 3
max_dfus == 2

Intf == 1..NumIntf

(* errno values of the kernel, as usbdfu.c uses them *)
ENOMEM == 12
ENODEV == 19

(* usbdfu.h: length and type tag of the DFU functional descriptor (9 and 0x21) *)
USB_DFU_FUNC_DSCLEN == 9
USB_DFU_FUNC_DSCTYP == 33

VARIABLES
    dfu_index,   \* the atomic slot counter
    pc,          \* per interface: where its probe / disconnect stands
    desc,        \* per interface: intf->cur_altsetting->extra and extralen
    index,       \* per interface: dfu_prepare's local `index` (0 outside the call)
    retv,        \* per interface: what its last dfu_prepare returned
    touched,     \* per interface: whether that dfu_prepare operated on dfu_index
    heldAtInc,   \* per interface, during dfu_prepare: slots held by others at its increment
    dfudev,      \* per interface: the struct dfu_device dfu_prepare allocates
    intfdata     \* per interface: usb_get_intfdata(intf) is the record (TRUE) or NULL

slotVars == <<dfu_index, pc, desc, index, retv, touched, heldAtInc, dfudev, intfdata>>

(* The transfer engine's state *)
VARIABLES
    cpc,         \* the calling thread's position
    op,          \* the operation the calling thread runs
    cdev,        \* the struct dfu_device the call is made on
    ctrl,        \* the struct dfu_control the caller owns and reuses
    urbdone,     \* ctrl->urbdone.done, the completion's count
    alloc,       \* dfu_submit_urb's local `alloc`
    retusb,      \* dfu_submit_urb's local `retusb`
    submitted,   \* the current call reached usb_submit_urb (line 216)
    urbst,       \* the URB in the USB core, and the callback's position
    urb_status,  \* urb->status as the USB core hands it to the callback
    urb_actual,  \* urb->actual_length as the USB core hands it to the callback
    urbmem,      \* the handle's memory: "none", "held", "freed", or "caller" (the caller's)
    unlinks,     \* usb_unlink_urb calls made by the current call
    waited,      \* the current call blocked on the completion
    timedOut,    \* the current call's timed wait expired
    logs,        \* the dev_err / dev_info lines the current call emitted
    ret,         \* what dfu_submit_urb returned
    result,      \* what the operation returned
    detach_timeout, \* the module parameter detach_timeout
    via,         \* how the last write to the "detach" attribute ended, or "none"
    wbuf,        \* the data of that write: buf[0 .. count-1]
    frees        \* usb_free_urb calls of the current dfu_submit_urb call

xferVars == <<cpc, op, cdev, ctrl, urbdone, alloc, retusb, submitted, urbst, urb_status,
              urb_actual, urbmem, unlinks, waited, timedOut, logs, ret, result,
              detach_timeout, via, wbuf, frees>>

vars == <<slotVars, xferVars>>

(***************************************************************************)
(* Functional descriptors an attach event may carry: the one of the        *)
(* spec's end-to-end example (attr 0x0D, timeout 255, transfer size 1024), *)
(* a missing one, one of the wrong length and one of the wrong type.       *)
(***************************************************************************)
GoodDesc ==
    [present |-> TRUE, len |-> USB_DFU_FUNC_DSCLEN, dsctyp |-> USB_DFU_FUNC_DSCTYP,
     attr |-> 13, tmoutLo |-> 255, tmoutHi |-> 0, xferLo |-> 0, xferHi |-> 4]

Descs ==
    { GoodDesc,
      [GoodDesc EXCEPT !.present = FALSE],
      [GoodDesc EXCEPT !.len = 7],
      [GoodDesc EXCEPT !.dsctyp = 4] }

(* le16_to_cpu: a 16-bit little-endian field, low byte first *)
le16_to_cpu(lo, hi) == lo + 256 * hi

(* usbdfu.c:251-252: the descriptor is rejected *)
DescInvalid(d) ==
    \/ ~d.present
    \/ d.len # USB_DFU_FUNC_DSCLEN
    \/ d.dsctyp # USB_DFU_FUNC_DSCTYP

NoDevice ==
    [live |-> FALSE, index |-> 0, attr |-> 0, dettmout |-> 0, xfersize |-> 0]

(* usbdfu.c:270-273: the fields dfu_prepare fills from the descriptor *)
NewDevice(idx, d) ==
    [live |-> TRUE, index |-> idx, attr |-> d.attr,
     dettmout |-> le16_to_cpu(d.tmoutLo, d.tmoutHi),
     xfersize |-> le16_to_cpu(d.xferLo, d.xferHi)]

(* atomic_inc_return and atomic_dec on dfu_index *)
atomic_inc_return(v) == v + 1
MutDecNoop(v) == v
atomic_dec(v) == v - 1
MutCleanupDecNoop(v) == v
cleanup_dec(v) == atomic_dec(v)

(* usbdfu.c:257: the pool is full *)
MutPoolFullOffByOne(idx) == idx > max_dfus
PoolFull(idx) == idx >= max_dfus

(* Interfaces that hold an increment of dfu_index they have not given back *)
HoldingPcs == {"p_alloc", "p_err", "p_file", "bound", "leaked", "c_dec"}
(* ... and of those, the ones whose increment passed the max_dfus test *)
SlotPcs == {"p_alloc", "p_file", "bound", "leaked", "c_dec"}
Holders == {i \in Intf : pc[i] \in HoldingPcs}
SlotHolders == {i \in Intf : pc[i] \in SlotPcs}
(* Live devices: prepared and not yet cleaned up *)
Live == {i \in Intf : dfudev[i].live}

SlotInit ==
    /\ dfu_index = -1
    /\ pc = [i \in Intf |-> "detached"]
    /\ desc = [i \in Intf |-> GoodDesc]
    /\ index = [i \in Intf |-> 0]
    /\ retv = [i \in Intf |-> 0]
    /\ touched = [i \in Intf |-> FALSE]
    /\ heldAtInc = [i \in Intf |-> 0]
    /\ dfudev = [i \in Intf |-> NoDevice]
    /\ intfdata = [i \in Intf |-> FALSE]

(***************************************************************************)
(* dfu_probe -> dfu_prepare, lines 249-255: an attach event for interface  *)
(* i carrying descriptor d; an invalid descriptor returns -ENODEV at once. *)
(***************************************************************************)
PrepareBegin(i, d) ==
    /\ pc[i] = "detached"
    /\ desc' = [desc EXCEPT ![i] = d]
    /\ touched' = [touched EXCEPT ![i] = FALSE]
    /\ IF DescInvalid(d)
          THEN /\ retv' = [retv EXCEPT ![i] = -ENODEV]
               /\ pc' = pc
          ELSE /\ retv' = [retv EXCEPT ![i] = 0]
               /\ pc' = [pc EXCEPT ![i] = "p_inc"]
    /\ UNCHANGED <<dfu_index, index, heldAtInc, dfudev, intfdata>>
    /\ UNCHANGED xferVars

(* lines 256-262: index = atomic_inc_return(&dfu_index); if (index >= max_dfus) *)
PrepareInc(i) ==
    /\ pc[i] = "p_inc"
    /\ dfu_index' = atomic_inc_return(dfu_index)
    /\ index' = [index EXCEPT ![i] = dfu_index']
    /\ touched' = [touched EXCEPT ![i] = TRUE]
    /\ heldAtInc' = [heldAtInc EXCEPT ![i] = Cardinality(SlotHolders)]
    /\ IF PoolFull(index'[i])
          THEN /\ retv' = [retv EXCEPT ![i] = -ENODEV]
               /\ pc' = [pc EXCEPT ![i] = "p_err"]
          ELSE /\ retv' = retv
               /\ pc' = [pc EXCEPT ![i] = "p_alloc"]
    /\ UNCHANGED <<desc, dfudev, intfdata>>
    /\ UNCHANGED xferVars

(* lines 264-285: kmalloc succeeds, the record is filled and registered *)
PrepareAllocOk(i) ==
    /\ pc[i] = "p_alloc"
    /\ dfudev' = [dfudev EXCEPT ![i] = NewDevice(index[i], desc[i])]
    /\ intfdata' = [intfdata EXCEPT ![i] = TRUE]
    /\ retv' = [retv EXCEPT ![i] = 0]
    /\ index' = [index EXCEPT ![i] = 0]
    /\ heldAtInc' = [heldAtInc EXCEPT ![i] = 0]
    /\ pc' = [pc EXCEPT ![i] = "p_file"]
    /\ UNCHANGED <<dfu_index, desc, touched>>
    /\ UNCHANGED xferVars

(* lines 264-268: kmalloc fails *)
PrepareAllocFail(i) ==
    /\ pc[i] = "p_alloc"
    /\ retv' = [retv EXCEPT ![i] = -ENOMEM]
    /\ pc' = [pc EXCEPT ![i] = "p_err"]
    /\ UNCHANGED <<dfu_index, desc, index, touched, heldAtInc, dfudev, intfdata>>
    /\ UNCHANGED xferVars

(* lines 287-289, err_10: atomic_dec(&dfu_index); return retv *)
PrepareErr(i) ==
    /\ pc[i] = "p_err"
    /\ dfu_index' = atomic_dec(dfu_index)
    /\ index' = [index EXCEPT ![i] = 0]
    /\ heldAtInc' = [heldAtInc EXCEPT ![i] = 0]
    /\ pc' = [pc EXCEPT ![i] = "detached"]
    /\ UNCHANGED <<desc, retv, touched, dfudev, intfdata>>
    /\ UNCHANGED xferVars

(***************************************************************************)
(* dfu_probe, lines 128-137: device_create_file succeeds (the interface is *)
(* bound) or fails (dfu_probe returns nonzero, so the driver core never    *)
(* calls dfu_disconnect for this interface).                               *)
(***************************************************************************)
ProbeCreateFile(i, ok) ==
    /\ pc[i] = "p_file"
    /\ pc' = [pc EXCEPT ![i] = IF ok THEN "bound" ELSE "leaked"]
    /\ UNCHANGED <<dfu_index, desc, index, retv, touched, heldAtInc, dfudev, intfdata>>
    /\ UNCHANGED xferVars

(* dfu_disconnect -> dfu_cleanup, lines 295-296: the record is unregistered and freed *)
CleanupFree(i) ==
    /\ pc[i] = "bound"
    /\ intfdata' = [intfdata EXCEPT ![i] = FALSE]
    /\ dfudev' = [dfudev EXCEPT ![i] = NoDevice]
    /\ pc' = [pc EXCEPT ![i] = "c_dec"]
    /\ UNCHANGED <<dfu_index, desc, index, retv, touched, heldAtInc>>
    /\ UNCHANGED xferVars

(* dfu_cleanup, line 297: atomic_dec(&dfu_index) *)
CleanupDec(i) ==
    /\ pc[i] = "c_dec"
    /\ dfu_index' = cleanup_dec(dfu_index)
    /\ pc' = [pc EXCEPT ![i] = "detached"]
    /\ UNCHANGED <<desc, index, retv, touched, heldAtInc, dfudev, intfdata>>
    /\ UNCHANGED xferVars

SlotNext ==
    \/ \E i \in Intf, d \in Descs : PrepareBegin(i, d)
    \/ \E i \in Intf : PrepareInc(i)
    \/ \E i \in Intf : PrepareAllocOk(i)
    \/ \E i \in Intf : PrepareAllocFail(i)
    \/ \E i \in Intf : PrepareErr(i)
    \/ \E i \in Intf, ok \in BOOLEAN : ProbeCreateFile(i, ok)
    \/ \E i \in Intf : CleanupFree(i)
    \/ \E i \in Intf : CleanupDec(i)

(***************************************************************************)
(*                 The transfer engine, dfu_submit_urb                     *)
(***************************************************************************)

(* errno values the USB core hands to a completion callback *)
EPIPE == 32
ECONNRESET == 104

(***************************************************************************)
(* usbdfu.h: the value dfu_submit_urb writes to ctrl->status before it     *)
(* submits.  The header is not among the sources; the specification calls  *)
(* it the "in error/unset" sentinel that never reads as success and has    *)
(* every failing submit return a negative status, so the model takes a     *)
(* negative value that is no errno code.                                   *)
(***************************************************************************)
USB_DFU_ERROR_CODE == -65535

(* usbdfu.h: the DFU class request codes, as the USB DFU class numbers them *)
USB_DFU_DETACH == 0
USB_DFU_GETSTATUS == 3
USB_DFU_CLRSTATUS == 4
USB_DFU_GETSTATE == 5
USB_DFU_ABORT == 6

(***************************************************************************)
(* usbdfu.c:25-26: the default of the module parameter detach_timeout, an  *)
(* int the administrator may rewrite at run time (S_IWUSR), and the values *)
(* the model lets it take.                                                 *)
(***************************************************************************)
DefaultDetachTimeout == 2000
DetachTimeouts == {-1, 0, DefaultDetachTimeout, 70000}

(* cpu_to_le16: the value as a 16-bit field *)
cpu_to_le16(v) == v % 65536

(* Devices a transfer is issued on: intfnum, dettmout and attr of dfu_prepare *)
XferDevs ==
    { [intfnum |-> 0, dettmout |-> 255, attr |-> 13],
      [intfnum |-> 1, dettmout |-> 5000, attr |-> 5],
      [intfnum |-> 1, dettmout |-> 65535, attr |-> 5] }

(* Terminal statuses and state bytes the device side may produce *)
HwStatuses == {0, -EPIPE}
SubmitErrors == {-ENODEV, -ENOMEM}
StateBytes == {2, 10}

Ops == {"dfu_do_switch", "dfu_abort", "dfu_get_status", "dfu_get_state",
        "dfu_clr_status"}

NoReq == [bRequestType |-> 0, bRequest |-> 0, wValue |-> 0, wIndex |-> 0, wLength |-> 0]

(* A container nobody has filled yet: zeroed memory *)
NoCtrl == [req |-> NoReq, pipe |-> "none", buff |-> "NULL", len |-> 0,
           urb |-> "NULL", status |-> 0, nxfer |-> 0, dfuState |-> 0]

XferInit ==
    /\ cpc = "idle"
    /\ op = "none"
    /\ cdev = CHOOSE d \in XferDevs : d.intfnum = 0
    /\ ctrl = NoCtrl
    /\ urbdone = 0
    /\ alloc = 0
    /\ retusb = 0
    /\ submitted = FALSE
    /\ urbst = "none"
    /\ urb_status = 0
    /\ urb_actual = 0
    /\ urbmem = "none"
    /\ unlinks = 0
    /\ waited = FALSE
    /\ timedOut = FALSE
    /\ logs = {}
    /\ ret = 0
    /\ result = 0
    /\ detach_timeout = DefaultDetachTimeout
    /\ via = "none"
    /\ wbuf = <<>>
    /\ frees = 0

(* usbdfu.c:67-68 *)
MutDetachTmoutLarger(dv) ==
    IF dv.dettmout > detach_timeout THEN dv.dettmout ELSE detach_timeout
DetachTmout(dv) ==
    IF dv.dettmout > detach_timeout THEN detach_timeout ELSE dv.dettmout

(* The administrator rewrites the module parameter between two calls *)
SetDetachTimeout(c) ==
    /\ cpc = "idle"
    /\ c # detach_timeout
    /\ detach_timeout' = c
    /\ UNCHANGED <<cpc, op, cdev, ctrl, urbdone, alloc, retusb, submitted, urbst,
                   urb_status, urb_actual, urbmem, unlinks, waited, timedOut, logs,
                   ret, result, via, wbuf, frees>>
    /\ UNCHANGED slotVars

(* The request each protocol operation writes into the container *)
BuildRequest(o, dv, c) ==
    CASE o = "dfu_do_switch" ->
           [c EXCEPT !.req = [bRequestType |-> 33, bRequest |-> USB_DFU_DETACH,
                              wValue |-> cpu_to_le16(DetachTmout(dv)),
                              wIndex |-> cpu_to_le16(dv.intfnum), wLength |-> 0],
                     !.pipe = "snd", !.buff = "NULL", !.len = 0, !.urb = "NULL"]
      [] o = "dfu_abort" ->
           [c EXCEPT !.req = [c.req EXCEPT !.bRequestType = 33,
                                           !.bRequest = USB_DFU_ABORT,
                                           !.wValue = 0, !.wLength = 0],
                     !.pipe = "snd", !.buff = "NULL", !.len = 0, !.urb = "NULL"]
      [] o = "dfu_get_status" ->
           [c EXCEPT !.req = [bRequestType |-> 161, bRequest |-> USB_DFU_GETSTATUS,
                              wValue |-> 0,
                              wIndex |-> cpu_to_le16(dv.intfnum),
                              wLength |-> cpu_to_le16(6)],
                     !.pipe = "rcv", !.buff = "dfuStatus", !.len = 6, !.urb = "NULL"]
      [] o = "dfu_get_state" ->
           [c EXCEPT !.req = [bRequestType |-> 161, bRequest |-> USB_DFU_GETSTATE,
                              wValue |-> 0,
                              wIndex |-> cpu_to_le16(dv.intfnum),
                              wLength |-> cpu_to_le16(1)],
                     !.pipe = "rcv", !.buff = "dfuState", !.len = 1, !.urb = "NULL"]
      [] o = "dfu_clr_status" ->
           [c EXCEPT !.req = [bRequestType |-> 33, bRequest |-> USB_DFU_CLRSTATUS,
                              wValue |-> 0,
                              wIndex |-> cpu_to_le16(dv.intfnum), wLength |-> 0],
                     !.pipe = "snd", !.buff = "NULL", !.len = 0, !.urb = "NULL"]

(* What the call leaves behind is cleared when the next call begins *)
CallBegins ==
    /\ unlinks' = 0
    /\ waited' = FALSE
    /\ timedOut' = FALSE
    /\ frees' = 0
    /\ alloc' = 0
    /\ retusb' = 0
    /\ submitted' = FALSE

(* A protocol operation is called on device dv with the caller's container *)
CallOp(o, dv) ==
    /\ cpc = "idle"
    /\ op' = o
    /\ cdev' = dv
    /\ ctrl' = BuildRequest(o, dv, ctrl)
    /\ urbmem' = "none"
    /\ cpc' = "s_entry"
    /\ CallBegins
    /\ logs' = {}
    /\ UNCHANGED <<urbdone, urbst, urb_status, urb_actual, ret, result>>
    /\ UNCHANGED <<detach_timeout, via, wbuf, slotVars>>

(***************************************************************************)
(* dfu_submit_urb is exported: a caller may also call it directly on a     *)
(* container it has filled before, with a transfer handle of its own in    *)
(* ctrl->urb.                                                              *)
(***************************************************************************)
CallSubmit(dv) ==
    /\ cpc = "idle"
    /\ op' = "dfu_submit_urb"
    /\ cdev' = dv
    /\ ctrl' = [ctrl EXCEPT !.urb = "caller"]
    /\ urbmem' = "caller"
    /\ cpc' = "s_entry"
    /\ CallBegins
    /\ logs' = {}
    /\ UNCHANGED <<urbdone, urbst, urb_status, urb_actual, ret, result>>
    /\ UNCHANGED <<detach_timeout, via, wbuf, slotVars>>

(***************************************************************************)
(* dfu_switch, the store hook of the "detach" attribute.  A write hands it *)
(* count bytes; sysfs ends the buffer with a NUL at buf[count].            *)
(***************************************************************************)
MaxWrite == 3
CharMinus == 45
CharNewline == 10
CharNul == 0
CharOther == 120
Chars == {CharMinus, CharNewline, CharNul, CharOther}
Writes == UNION {[1..n -> Chars] : n \in 0..MaxWrite}

(* buf[k], k counted from 0 *)
BufAt(b, k) == IF k < Len(b) THEN b[k + 1] ELSE CharNul

(* line 95: the write is taken as the detach command *)
SwitchCommand(b) ==
    /\ Len(b) > 0
    /\ BufAt(b, 0) = CharMinus
    /\ (BufAt(b, 1) = CharNewline \/ BufAt(b, 1) = CharNul)

(***************************************************************************)
(* dfu_switch, lines 90-101, on the device dv of the attribute: kmalloc of *)
(* the container fails (-ENOMEM); or the write is the command and          *)
(* dfu_do_switch runs on the fresh container, whatever its memory held;    *)
(* or "Invalid Command" is logged, the untouched container freed and count *)
(* returned.  The URB of an earlier write was freed before that write      *)
(* returned, so none exists when this one begins.                          *)
(***************************************************************************)
DfuSwitch(b, dv, mem) ==
    /\ cpc = "idle"
    /\ wbuf' = b
    /\ cdev' = dv
    /\ CallBegins
    /\ IF ~mem
          THEN /\ via' = "nomem"
               /\ op' = "dfu_switch"
               /\ result' = -ENOMEM
               /\ ctrl' = NoCtrl
               /\ logs' = {}
               /\ UNCHANGED <<cpc, urbmem>>
          ELSE IF SwitchCommand(b)
          THEN /\ via' = "switch"
               /\ op' = "dfu_do_switch"
               /\ ctrl' = BuildRequest("dfu_do_switch", dv, ctrl)
               /\ urbmem' = "none"
               /\ cpc' = "s_entry"
               /\ logs' = {}
               /\ UNCHANGED result
          ELSE /\ via' = "rejected"
               /\ op' = "dfu_switch"
               /\ result' = Len(b)
               /\ ctrl' = NoCtrl
               /\ logs' = {"invalid"}
               /\ UNCHANGED <<cpc, urbmem>>
    /\ urbdone' = 0
    /\ urbst' = "none"
    /\ urb_status' = 0
    /\ urb_actual' = 0
    /\ ret' = 0
    /\ UNCHANGED detach_timeout
    /\ UNCHANGED slotVars

(* What the operation makes of dfu_submit_urb's result; lines 348-349 for get-state *)
OpResult(o, r, c) ==
    IF o = "dfu_get_state" /\ r = 0 THEN c.dfuState ELSE r

(* dfu_switch, line 101: the attribute write returns count whatever dfu_do_switch did *)
CallResult(o, r, c) ==
    IF via = "switch" THEN Len(wbuf) ELSE OpResult(o, r, c)

(* dfu_do_switch, lines 79-80: a device without bit 3 of attr needs a reset *)
SwitchInfo(o, r) ==
    IF o = "dfu_do_switch" /\ r = 0 /\ (cdev.attr \div 8) % 2 = 0
       THEN {"info_reset"} ELSE {}

(* line 203-210: the container carries a handle of the caller's *)
SubmitBorrow ==
    /\ cpc = "s_entry"
    /\ ctrl.urb # "NULL"
    /\ alloc' = 0
    /\ cpc' = "s_submit"
    /\ UNCHANGED <<op, cdev, ctrl, urbdone, retusb, submitted, urbst, urb_status, urb_actual,
                   urbmem, unlinks, waited, timedOut, logs, ret, result>>
    /\ UNCHANGED <<detach_timeout, via, wbuf, frees, slotVars>>

(* lines 203-204, 209: usb_alloc_urb succeeds *)
SubmitAllocOk ==
    /\ cpc = "s_entry"
    /\ ctrl.urb = "NULL"
    /\ ctrl' = [ctrl EXCEPT !.urb = "own"]
    /\ urbmem' = "held"
    /\ alloc' = 1
    /\ cpc' = "s_submit"
    /\ UNCHANGED <<op, cdev, urbdone, retusb, submitted, urbst, urb_status, urb_actual,
                   unlinks, waited, timedOut, logs, ret, result>>
    /\ UNCHANGED <<detach_timeout, via, wbuf, frees, slotVars>>

(* lines 203-208: usb_alloc_urb fails; dfu_submit_urb returns -ENOMEM *)
SubmitAllocFail ==
    /\ cpc = "s_entry"
    /\ ctrl.urb = "NULL"
    /\ logs' = logs \cup {"alloc"}
    /\ ret' = -ENOMEM
    /\ result' = CallResult(op, -ENOMEM, ctrl)
    /\ cpc' = "idle"
    /\ UNCHANGED <<op, cdev, ctrl, urbdone, alloc, retusb, submitted, urbst, urb_status,
                   urb_actual, urbmem, unlinks, waited, timedOut>>
    /\ UNCHANGED <<detach_timeout, via, wbuf, frees, slotVars>>

(* line 217: the submission was accepted *)
MutAcceptedAlways(r) == TRUE
SubmitAccepted(r) == r = 0

(***************************************************************************)
(* lines 211-216 and 222-225: the handle is filled, the completion re-armed,*)
(* ctrl->status set to the sentinel (MarkUnset, line 215), and             *)
(* usb_submit_urb returns r.                                               *)
(***************************************************************************)
MutMarkUnsetNoop(c) == c
MarkUnset(c) == [c EXCEPT !.status = USB_DFU_ERROR_CODE]

SubmitUrb(r) ==
    /\ cpc = "s_submit"
    /\ urbdone' = 0
    /\ ctrl' = MarkUnset(ctrl)
    /\ retusb' = r
    /\ submitted' = TRUE
    /\ urbst' = IF r = 0 THEN "inflight" ELSE "none"
    /\ IF SubmitAccepted(r)
          THEN /\ cpc' = "s_wait"
               /\ logs' = logs
          ELSE /\ cpc' = "s_free"
               /\ logs' = logs \cup {"submit"}
    /\ UNCHANGED <<op, cdev, alloc, urb_status, urb_actual, urbmem, unlinks,
                   waited, timedOut, ret, result>>
    /\ UNCHANGED <<detach_timeout, via, wbuf, frees, slotVars>>

(* A wait on the completion returns once done is nonzero, and takes one *)
MutNoWait(done) == TRUE
wait_for_completion(done) == done > 0

Consume(done) == IF done > 0 THEN done - 1 ELSE done

(* line 219: the completion is signalled before urb_timeout expires *)
WaitDone ==
    /\ cpc = "s_wait"
    /\ urbdone > 0
    /\ urbdone' = Consume(urbdone)
    /\ waited' = TRUE
    /\ cpc' = "s_free"
    /\ UNCHANGED <<op, cdev, ctrl, alloc, retusb, submitted, urbst, urb_status, urb_actual,
                   urbmem, unlinks, timedOut, logs, ret, result>>
    /\ UNCHANGED <<detach_timeout, via, wbuf, frees, slotVars>>

(* line 219-220: urb_timeout expires with the completion not signalled *)
WaitExpire ==
    /\ cpc = "s_wait"
    /\ urbdone = 0
    /\ waited' = TRUE
    /\ timedOut' = TRUE
    /\ cpc' = "t_unlink"
    /\ UNCHANGED <<op, cdev, ctrl, urbdone, alloc, retusb, submitted, urbst, urb_status,
                   urb_actual, urbmem, unlinks, logs, ret, result>>
    /\ UNCHANGED <<detach_timeout, via, wbuf, frees, slotVars>>

(* usb_unlink_urb cancels a transfer the USB core has not given back yet *)
usb_unlink_urb(st) == IF st = "inflight" THEN "unlinking" ELSE st

(* dfu_urb_timeout, line 54 *)
TimeoutUnlink ==
    /\ cpc = "t_unlink"
    /\ unlinks' = unlinks + 1
    /\ urbst' = usb_unlink_urb(urbst)
    /\ cpc' = "t_wait"
    /\ UNCHANGED <<op, cdev, ctrl, urbdone, alloc, retusb, submitted, urb_status, urb_actual,
                   urbmem, waited, timedOut, logs, ret, result>>
    /\ UNCHANGED <<detach_timeout, via, wbuf, frees, slotVars>>

(* dfu_urb_timeout, lines 55-60: the untimed wait, then the log line *)
TimeoutWait ==
    /\ cpc = "t_wait"
    /\ wait_for_completion(urbdone)
    /\ urbdone' = Consume(urbdone)
    /\ logs' = IF ctrl.req.bRequest # USB_DFU_ABORT
                  THEN logs \cup {"cancelled"} ELSE logs
    /\ cpc' = "s_free"
    /\ UNCHANGED <<op, cdev, ctrl, alloc, retusb, submitted, urbst, urb_status, urb_actual,
                   urbmem, unlinks, waited, timedOut, ret, result>>
    /\ UNCHANGED <<detach_timeout, via, wbuf, frees, slotVars>>

(* lines 226-229: a handle this call allocated is freed *)
MutOwnsUrbAlways(a) == TRUE
OwnsUrb(a) == a # 0

SubmitFree ==
    /\ cpc = "s_free"
    /\ IF OwnsUrb(alloc)
          THEN /\ urbmem' = "freed"
               /\ frees' = frees + 1
               /\ ctrl' = [ctrl EXCEPT !.urb = "NULL"]
          ELSE /\ UNCHANGED <<urbmem, frees, ctrl>>
    /\ cpc' = "s_ret"
    /\ UNCHANGED <<op, cdev, urbdone, alloc, retusb, submitted, urbst, urb_status, urb_actual,
                   unlinks, waited, timedOut, logs, ret, result>>
    /\ UNCHANGED <<detach_timeout, via, wbuf, slotVars>>

(* line 237: the value dfu_submit_urb returns *)
MutReturnRetusb(c, r) == r
ReturnValue(c, r) == c.status

(* lines 230-237: the failure is logged and ctrl->status returned *)
SubmitReturn ==
    /\ cpc = "s_ret"
    /\ ret' = ReturnValue(ctrl, retusb)
    /\ logs' = (IF ctrl.status # 0 /\ ctrl.req.bRequest # USB_DFU_ABORT
                   THEN logs \cup {"failed"} ELSE logs) \cup SwitchInfo(op, ret')
    /\ result' = CallResult(op, ret', ctrl)
    /\ cpc' = "idle"
    /\ UNCHANGED <<op, cdev, ctrl, urbdone, alloc, retusb, submitted, urbst, urb_status,
                   urb_actual, urbmem, unlinks, waited, timedOut>>
    /\ UNCHANGED <<detach_timeout, via, wbuf, frees, slotVars>>

(***************************************************************************)
(* The completion context.  The USB core gives the URB back exactly once   *)
(* per accepted submission, with the device's terminal status, or with     *)
(* -ECONNRESET once an unlink took effect, and runs dfu_ctrlurb_done.      *)
(***************************************************************************)
MutCbNext(l) ==
    CASE l = "l46" -> "l48" [] l = "l48" -> "l47" [] l = "l47" -> "done"
CbNext(l) ==
    CASE l = "l46" -> "l47" [] l = "l47" -> "l48" [] l = "l48" -> "done"

(* the giveback and line 46: ctrl->status = urb->status *)
CbStatus(st, n, b) ==
    /\ urbst \in {"inflight", "unlinking"}
    /\ urb_status' = IF urbst = "unlinking" THEN -ECONNRESET ELSE st
    /\ urb_actual' = IF urb_status' = 0 THEN n ELSE 0
    /\ ctrl' = [ctrl EXCEPT !.status = urb_status',
                            !.dfuState = IF ctrl.buff = "dfuState" /\ urb_actual' > 0
                                            THEN b ELSE @]
    /\ urbst' = CbNext("l46")
    /\ UNCHANGED <<cpc, op, cdev, urbdone, alloc, retusb, submitted, urbmem, unlinks, waited,
                   timedOut, logs, ret, result>>
    /\ UNCHANGED <<detach_timeout, via, wbuf, frees, slotVars>>

(* line 47: ctrl->nxfer = urb->actual_length *)
CbNxfer ==
    /\ urbst = "l47"
    /\ ctrl' = [ctrl EXCEPT !.nxfer = urb_actual]
    /\ urbst' = CbNext("l47")
    /\ UNCHANGED <<cpc, op, cdev, urbdone, alloc, retusb, submitted, urb_status, urb_actual,
                   urbmem, unlinks, waited, timedOut, logs, ret, result>>
    /\ UNCHANGED <<detach_timeout, via, wbuf, frees, slotVars>>

(* line 48: complete(&ctrl->urbdone) *)
MutCompleteLost(done) == done
complete(done) == done + 1

CbComplete ==
    /\ urbst = "l48"
    /\ urbdone' = complete(urbdone)
    /\ urbst' = CbNext("l48")
    /\ UNCHANGED <<cpc, op, cdev, ctrl, alloc, retusb, submitted, urb_status, urb_actual,
                   urbmem, unlinks, waited, timedOut, logs, ret, result>>
    /\ UNCHANGED <<detach_timeout, via, wbuf, frees, slotVars>>

XferNext ==
    \/ \E o \in Ops, dv \in XferDevs : CallOp(o, dv)
    \/ \E dv \in XferDevs : CallSubmit(dv)
    \/ \E c \in DetachTimeouts : SetDetachTimeout(c)
    \/ SubmitBorrow
    \/ SubmitAllocOk
    \/ SubmitAllocFail
    \/ \E r \in {0} \cup SubmitErrors : SubmitUrb(r)
    \/ WaitDone
    \/ WaitExpire
    \/ TimeoutUnlink
    \/ TimeoutWait
    \/ SubmitFree
    \/ SubmitReturn
    \/ \E st \in HwStatuses, n \in {0, ctrl.len}, b \in StateBytes : CbStatus(st, n, b)
    \/ CbNxfer
    \/ CbComplete

Init == SlotInit /\ XferInit

(* The attribute path: writes to "detach", the engine and the completion context *)
SwitchNext ==
    \/ \E b \in Writes, dv \in XferDevs, mem \in BOOLEAN : DfuSwitch(b, dv, mem)
    \/ SubmitAllocOk
    \/ SubmitAllocFail
    \/ \E r \in {0} \cup SubmitErrors : SubmitUrb(r)
    \/ WaitDone
    \/ WaitExpire
    \/ TimeoutUnlink
    \/ TimeoutWait
    \/ SubmitFree
    \/ SubmitReturn
    \/ \E st \in HwStatuses, n \in {0, ctrl.len}, b \in StateBytes : CbStatus(st, n, b)
    \/ CbNxfer
    \/ CbComplete

(* The steps of the thread inside dfu_submit_urb, and those of the completion context *)
SubmitSteps ==
    \/ SubmitBorrow
    \/ SubmitAllocOk
    \/ SubmitAllocFail
    \/ \E r \in {0} \cup SubmitErrors : SubmitUrb(r)
    \/ WaitDone
    \/ WaitExpire
    \/ TimeoutUnlink
    \/ TimeoutWait
    \/ SubmitFree
    \/ SubmitReturn

CallbackSteps ==
    \/ \E st \in HwStatuses, n \in {0, ctrl.len}, b \in StateBytes : CbStatus(st, n, b)
    \/ CbNxfer
    \/ CbComplete

SlotSpec == Init /\ [][SlotNext]_vars
XferSpec == Init /\ [][XferNext]_vars
SwitchSpec == Init /\ [][SwitchNext]_vars

(***************************************************************************)
(* XferSpec under a fair scheduler: the calling thread takes its next step *)
(* when it can (the timed wait ends, by completion or by expiry), and the  *)
(* USB core gives every accepted transfer back and lets the callback run.  *)
(* Nothing obliges a caller to start another call.                         *)
(***************************************************************************)
XferFairSpec ==
    /\ XferSpec
    /\ WF_vars(SubmitSteps)
    /\ WF_vars(CallbackSteps)

(***************************************************************************)
(*                              The claims                                 *)
(***************************************************************************)

(* No dfu_prepare or dfu_cleanup call is in progress *)
Quiescent == \A i \in Intf : pc[i] \in {"detached", "bound", "leaked"}

(* The last dfu_prepare on interface i has returned an error *)
PrepareFailed(i) == pc[i] = "detached" /\ retv[i] # 0

(***************************************************************************)
(* C1: no two live devices (prepared and not yet cleaned up) hold the same *)
(* index, whatever the sequence of dfu_prepare and dfu_cleanup calls.      *)
(* The counting allocator breaks it: attach A (index 0), attach B (index   *)
(* 1), detach A (counter back to 0), attach C (index 1, which B holds).    *)
(***************************************************************************)
C1_UniqueIndex ==
    \A i \in Live, j \in Live : i # j => dfudev[i].index # dfudev[j].index

(***************************************************************************)
(* C6: a dfu_prepare with a valid descriptor never fails with "maximum     *)
(* reached" while fewer than max_dfus slots are held at the moment of its  *)
(* atomic increment.  A slot counts as held from the increment that passed *)
(* the max_dfus test to the decrement of dfu_cleanup.  The increment of a  *)
(* concurrent dfu_prepare that is about to roll back is counted by the     *)
(* code, so a call fails although a slot is free.                          *)
(***************************************************************************)
C6_FullOnlyWhenNoSlot ==
    \A i \in Intf :
        (pc[i] = "p_err" /\ retv[i] = -ENODEV) => heldAtInc[i] >= max_dfus

(***************************************************************************)
(* C7: whenever no dfu_prepare or dfu_cleanup call is in progress, the     *)
(* slot count dfu_index + 1 equals the number of live devices.             *)
(***************************************************************************)
C7_SlotCountIsLive ==
    Quiescent => dfu_index + 1 = Cardinality(Live)

(* C7's case: the pool is full, after some device was prepared and cleaned up *)
C7_Witness ==
    /\ Quiescent
    /\ Cardinality(Live) = max_dfus
    /\ dfu_index + 1 = max_dfus
    /\ \E i \in Intf : pc[i] = "detached" /\ touched[i] /\ retv[i] = 0

(***************************************************************************)
(* C8: a failing dfu_prepare creates no state and consumes no slot.  The   *)
(* counter always equals the increments not yet given back, and a call     *)
(* that has returned an error holds none; no record exists or is           *)
(* registered for its interface; with an invalid descriptor the call never *)
(* operated on dfu_index.                                                  *)
(***************************************************************************)
C8_FailedPrepareLeavesNothing ==
    /\ dfu_index + 1 = Cardinality(Holders)
    /\ \A i \in Intf :
          /\ pc[i] \in {"p_inc", "p_alloc", "p_err"} => ~dfudev[i].live /\ ~intfdata[i]
          /\ PrepareFailed(i) =>
                /\ ~dfudev[i].live
                /\ ~intfdata[i]
                /\ DescInvalid(desc[i]) => ~touched[i]

(* C8's case: calls have failed on a full pool, on a descriptor and on kmalloc *)
C8_Witness ==
    /\ \E i \in Intf : PrepareFailed(i) /\ touched[i] /\ retv[i] = -ENODEV
    /\ \E j \in Intf : PrepareFailed(j) /\ DescInvalid(desc[j])
    /\ \E k \in Intf : PrepareFailed(k) /\ retv[k] = -ENOMEM
    /\ dfu_index = -1

(***************************************************************************)
(* C9: at most max_dfus devices are live, and every live device's index    *)
(* lies in 0 .. max_dfus - 1.                                              *)
(***************************************************************************)
C9_Bounded ==
    /\ Cardinality(Live) <= max_dfus
    /\ \A i \in Live : dfudev[i].index \in 0..(max_dfus - 1)

(* C9's case: the pool is full and a further dfu_prepare has just been refused *)
C9_Witness ==
    /\ Cardinality(Live) = max_dfus
    /\ \E i \in Intf : pc[i] = "p_err" /\ retv[i] = -ENODEV /\ index[i] >= max_dfus

(* dfu_submit_urb has returned to its caller *)
Returned == cpc = "idle" /\ op # "none"
(* usb_submit_urb accepted, respectively rejected, the current call's transfer *)
Accepted == submitted /\ retusb = 0
Rejected == submitted /\ retusb # 0
(* the current call failed to allocate its transfer handle *)
AllocFailed == Returned /\ ~submitted
(* no callback is pending or running on the container *)
CallbackOver == urbst \in {"none", "done"}

(***************************************************************************)
(* C2: when the timed wait of an accepted submission expires before the    *)
(* callback has signalled, dfu_submit_urb calls usb_unlink_urb exactly     *)
(* once and returns only after dfu_ctrlurb_done has run to its end for     *)
(* that transfer; no accepted call returns with the transfer outstanding.  *)
(***************************************************************************)
C2_TimeoutUnlinksOnceThenWaits ==
    /\ unlinks <= 1
    /\ (timedOut /\ cpc \in {"t_wait", "s_free", "s_ret", "idle"}) => unlinks = 1
    /\ (Accepted /\ cpc \in {"s_free", "s_ret", "idle"}) => urbst = "done"

(* C2's case: the wait expired, the unlink took effect, the call returned the cancellation *)
C2_Witness ==
    /\ Returned
    /\ timedOut
    /\ unlinks = 1
    /\ urbst = "done"
    /\ ret = -ECONNRESET

(***************************************************************************)
(* C3: the transfer handle is freed only once dfu_ctrlurb_done is over,    *)
(* and while the caller is outside the window between submission and       *)
(* completion (it has returned, or not yet submitted) no callback is left  *)
(* that would write ctrl->status, ctrl->nxfer or the completion.           *)
(***************************************************************************)
C3_NoCallbackAfterFreeOrReturn ==
    /\ urbmem = "freed" => CallbackOver
    /\ cpc \in {"idle", "s_entry", "s_submit", "s_ret"} => CallbackOver

(* C3's case: an accepted transfer completed with data, the handle is freed, the call returned *)
C3_Witness ==
    /\ Returned
    /\ Accepted
    /\ urbmem = "freed"
    /\ urbst = "done"
    /\ ctrl.nxfer = 6

(***************************************************************************)
(* C4: when the callback signals before the timed wait expires,            *)
(* dfu_submit_urb makes no usb_unlink_urb call, returns urb->status as the *)
(* callback received it, and ctrl->nxfer is urb->actual_length.            *)
(***************************************************************************)
C4_InTimeCompletionUnchanged ==
    (Returned /\ Accepted /\ ~timedOut) =>
        /\ unlinks = 0
        /\ ret = urb_status
        /\ ctrl.status = urb_status
        /\ ctrl.nxfer = urb_actual

(* C4's case: a device error delivered in time *)
C4_Witness ==
    /\ Returned
    /\ Accepted
    /\ ~timedOut
    /\ urb_status = -EPIPE
    /\ ret = -EPIPE

(***************************************************************************)
(* C5: when usb_submit_urb rejects the transfer, dfu_submit_urb returns a  *)
(* nonzero value without waiting on the completion and without calling     *)
(* usb_unlink_urb.                                                         *)
(***************************************************************************)
C5_RejectedReturnsAtOnce ==
    Rejected =>
        /\ ~waited
        /\ unlinks = 0
        /\ cpc \in {"s_free", "s_ret", "idle"}
        /\ Returned => ret # 0

(* C5's case: a rejected submission has returned *)
C5_Witness ==
    /\ Returned
    /\ Rejected
    /\ retusb = -ENODEV
    /\ ret # 0

(* The current dfu_get_state call's transfer failed, in one of the claim's four ways *)
TransferFailed ==
    \/ AllocFailed
    \/ Rejected
    \/ timedOut
    \/ Accepted /\ urb_status # 0

(***************************************************************************)
(* C10: dfu_get_state returns the received state byte ctrl->dfuState, in   *)
(* 0..255, exactly when dfu_submit_urb returned 0, otherwise               *)
(* dfu_submit_urb's result; and on every transfer failure (allocation      *)
(* failure, rejected submission, timeout with cancellation, device error)  *)
(* the result is negative.  The code returns a state byte from a call that *)
(* took the timeout path and logged the cancellation, when the callback    *)
(* delivers status 0 between the expiry and the unlink.                    *)
(***************************************************************************)
C10_GetStateResult ==
    (Returned /\ op = "dfu_get_state") =>
        /\ ret = 0 => (result = ctrl.dfuState /\ result \in 0..255)
        /\ ret # 0 => result = ret
        /\ TransferFailed => result < 0

Min(a, b) == IF a < b THEN a ELSE b

(* A dfu_do_switch call is under way, with the request it built in the container *)
InSwitch == op = "dfu_do_switch" /\ cpc # "idle"

(* The DETACH request but for its wValue: bRequest, wLength and no payload *)
DetachShape ==
    /\ ctrl.req.bRequest = USB_DFU_DETACH
    /\ ctrl.req.wLength = 0
    /\ ctrl.buff = "NULL"
    /\ ctrl.len = 0

(***************************************************************************)
(* C11, as claimed: for every device detach timeout d in 0..65535 and      *)
(* every configured detach_timeout c, the DETACH request of dfu_do_switch  *)
(* carries wValue = min(d, c), bRequest = DETACH, wLength = 0 and no       *)
(* payload.  detach_timeout is an int: with c = -1 the code takes tmout =  *)
(* -1 and the 16-bit wValue is 65535.                                      *)
(***************************************************************************)
C11_WValueIsMin ==
    InSwitch =>
        /\ ctrl.req.wValue = Min(cdev.dettmout, detach_timeout)
        /\ DetachShape

(***************************************************************************)
(* C11, amended: for every d in 0..65535 and every configured              *)
(* detach_timeout c >= 0 the DETACH request carries wValue = min(d, c),    *)
(* bRequest = DETACH, wLength = 0 and no payload; for c < 0 it carries the *)
(* 16-bit value c mod 65536.                                               *)
(***************************************************************************)
C11_WValueIsMinOfNonNegative ==
    InSwitch =>
        /\ detach_timeout >= 0 => ctrl.req.wValue = Min(cdev.dettmout, detach_timeout)
        /\ detach_timeout < 0 => ctrl.req.wValue = detach_timeout % 65536
        /\ DetachShape

(* C11's case: the spec's example, device timeout 5000 under the default 2000 *)
C11_Witness ==
    /\ InSwitch
    /\ cdev.dettmout = 5000
    /\ detach_timeout = 2000
    /\ ctrl.req.wValue = 2000

(***************************************************************************)
(* C12  A write to the "detach" attribute submits a DETACH transfer if and *)
(* only if the written data is the literal command "-", optionally         *)
(* followed by one newline or NUL; any other write, the empty one          *)
(* included, submits nothing and changes neither a device record nor the   *)
(* slot counter.  (A write that found no memory for its container is left  *)
(* out of the statement.)                                                  *)
(***************************************************************************)
IsDetachCommand(b) ==
    b \in {<<CharMinus>>, <<CharMinus, CharNewline>>, <<CharMinus, CharNul>>}

NoTransfer ==
    /\ cpc = "idle"
    /\ ~submitted
    /\ alloc = 0
    /\ urbst = "none"

C12_DetachIffCommand ==
    /\ via = "switch" => IsDetachCommand(wbuf)
    /\ via = "rejected" =>
           /\ ~IsDetachCommand(wbuf)
           /\ NoTransfer
           /\ dfu_index = -1
           /\ Live = {}

(***************************************************************************)
(* C13  When usb_submit_urb rejects the transfer with error code e,        *)
(* dfu_submit_urb returns that same code e, not the sentinel               *)
(* USB_DFU_ERROR_CODE it wrote to ctrl->status before the submission.      *)
(***************************************************************************)
C13_RejectedReturnsSubmitError ==
    (Returned /\ Rejected) => ret = retusb

(***************************************************************************)
(* C14  On every return path of dfu_submit_urb (handle allocation failure, *)
(* rejected submission, completion in time, completion after cancellation) *)
(* the value returned is ctrl->status as it stands at the return, and that *)
(* status was written by this call: the sentinel on a rejected submission, *)
(* the callback's status on an accepted one.                               *)
(***************************************************************************)
StatusOfThisCall ==
    /\ submitted
    /\ Rejected => ctrl.status = USB_DFU_ERROR_CODE
    /\ Accepted => ctrl.status = urb_status

C14_ReturnIsStatusOfThisCall ==
    Returned => (ret = ctrl.status /\ StatusOfThisCall)

(***************************************************************************)
(* C14, amended: the same on every return path that follows a successful   *)
(* allocation (or a borrowed handle); when usb_alloc_urb fails the call    *)
(* returns -ENOMEM and leaves ctrl->status as it found it.                 *)
(***************************************************************************)
AllocFailStep == cpc = "s_entry" /\ cpc' = "idle"

C14_ReturnIsStatusUnlessAllocFailed ==
    /\ [](Returned =>
            /\ submitted => (ret = ctrl.status /\ StatusOfThisCall)
            /\ AllocFailed => ret = -ENOMEM)
    /\ [][AllocFailStep => ctrl'.status = ctrl.status]_vars

(* a reused container whose status an earlier cycle left at -EPIPE returns *)
(* the sentinel this call wrote                                            *)
C14_Witness ==
    /\ Returned
    /\ Rejected
    /\ urb_status = -EPIPE
    /\ ctrl.status = USB_DFU_ERROR_CODE
    /\ ret = USB_DFU_ERROR_CODE

(***************************************************************************)
(* C15  A failed request whose bRequest is ABORT has emitted no dev_err    *)
(* when dfu_submit_urb returns, whichever way it failed (allocation,       *)
(* rejected submission, cancellation after the timeout, nonzero terminal   *)
(* status); a failed request with any other code has emitted at least one  *)
(* dev_err that names its request type and code.                           *)
(***************************************************************************)
ErrLogs == logs \ {"info_reset"}
(* the dev_err lines that print bRequestType and bRequest: 57-59, 223-225, 232-235 *)
NamingLogs == {"cancelled", "submit", "failed"}

C15_AbortFailuresNotLogged ==
    (Returned /\ TransferFailed) =>
        IF ctrl.req.bRequest = USB_DFU_ABORT
           THEN ErrLogs = {}
           ELSE ErrLogs \cap NamingLogs # {}

(***************************************************************************)
(* C16  Ownership of the transfer handle in dfu_submit_urb.  A call that   *)
(* was entered with ctrl->urb == NULL and allocated a handle has freed it  *)
(* exactly once when it returns, on every path, and leaves ctrl->urb ==    *)
(* NULL; a call entered with a handle of the caller's never frees it and   *)
(* returns with ctrl->urb still that handle.  No handle is freed twice.    *)
(***************************************************************************)
CallerSupplied == op = "dfu_submit_urb"

C16_HandleOwnership ==
    /\ frees <= 1
    /\ CallerSupplied /\ cpc # "idle" => (ctrl.urb = "caller" /\ urbmem = "caller")
    /\ Returned =>
           IF CallerSupplied
              THEN /\ frees = 0
                   /\ urbmem = "caller"
                   /\ ctrl.urb = "caller"
              ELSE /\ ctrl.urb = "NULL"
                   /\ alloc = 1 => (frees = 1 /\ urbmem = "freed")
                   /\ alloc = 0 => (frees = 0 /\ urbmem = "none")

(* a call that allocated its handle has returned along the cancellation path *)
C16_Witness ==
    /\ Returned
    /\ timedOut
    /\ ~CallerSupplied
    /\ alloc = 1
    /\ frees = 1
    /\ ctrl.urb = "NULL"

(***************************************************************************)
(* C17  Every call of dfu_submit_urb eventually returns, given that the    *)
(* USB core runs dfu_ctrlurb_done once for each accepted submission (also  *)
(* after usb_unlink_urb) and that the scheduler is fair: the timed wait    *)
(* ends, and the untimed wait of dfu_urb_timeout ends too, also when the   *)
(* callback fires between the expiry and the unlink.                       *)
(***************************************************************************)
InCall == cpc # "idle"

C17_SubmitReturns == InCall ~> ~InCall

(* the callback ran to its end after the expiry and before usb_unlink_urb, *)
(* and the call has returned                                               *)
C17_Witness ==
    /\ Returned
    /\ timedOut
    /\ unlinks = 1
    /\ urb_status # -ECONNRESET
    /\ urbst = "done"

(***************************************************************************)
(* C18  A reused container carries nothing from one request cycle into the *)
(* next: while one of the five protocol operations is in dfu_submit_urb,   *)
(* the setup packet, pipe, buffer and length in the container are those    *)
(* the operation builds on a container never used before, whatever request *)
(* was issued on it earlier.                                               *)
(***************************************************************************)
InOp == cpc # "idle" /\ op \in Ops

FreshRequest == BuildRequest(op, cdev, NoCtrl)

C18_PacketIndependentOfHistory ==
    InOp =>
        /\ ctrl.req = FreshRequest.req
        /\ ctrl.pipe = FreshRequest.pipe
        /\ ctrl.buff = FreshRequest.buff
        /\ ctrl.len = FreshRequest.len

(***************************************************************************)
(* C19  An attach that fails releases its slot.  Once dfu_probe has        *)
(* returned nonzero on an interface, because dfu_prepare failed or because *)
(* device_create_file failed after it, no device record is associated      *)
(* with that interface and its increment of dfu_index has been given back: *)
(* the counter counts only the calls in progress and the bound devices.    *)
(***************************************************************************)
ProbeFailed(i) == PrepareFailed(i) \/ pc[i] = "leaked"

C19_FailedProbeReleasesSlot ==
    /\ \A i \in Intf : ProbeFailed(i) => (~dfudev[i].live /\ ~intfdata[i])
    /\ dfu_index + 1 = Cardinality({i \in Holders : ~ProbeFailed(i)})

(***************************************************************************)
(* C20  Whenever dfu_submit_urb took the timeout path (usb_unlink_urb      *)
(* called, the request logged as cancelled) the status it returns is       *)
(* nonzero, in every interleaving, the one included where dfu_ctrlurb_done *)
(* delivers status 0 after the timed wait expired and before the unlink.   *)
(***************************************************************************)
C20_TimeoutReturnsNonzero ==
    (Returned /\ timedOut /\ unlinks > 0) => ret # 0
=============================================================================
